---- MODULE Spec2Model ----
(***************************************************************************)
(* A model of fontParts' contour core: the ordered point list of a         *)
(* contour (BaseContour), the segment view derived from it                 *)
(* (BaseContour._get_segments and the segment editing methods) and the     *)
(* bPoint view (BaseBPoint).                                               *)
(*                                                                         *)
(* Python objects are modelled by a heap: a context c holds                *)
(*   c.at     the point objects ever created (a sequence, the index of a   *)
(*            point in it is the point's identity),                        *)
(*   c.order  the contour's point list, as identities in contour order,    *)
(*   c.err    "none", or the name of the exception that ended the call.    *)
(* A segment object is the tuple of the identities of its points, so that  *)
(* a segment fetched before an edit keeps referring to the same point      *)
(* objects after it, as in the code.  Indexes are 0-based as in Python.    *)
(*                                                                         *)
(* The objects that are no contours (an anchor, a dict-like object, a      *)
(* glyph with guidelines, a TrueType glyph) are held in obj, their state   *)
(* before the last call in objPrev.                                        *)
(***************************************************************************)
EXTENDS Integers, Sequences, FiniteSets, TLC

VARIABLES points, prev, op, err, ret, steps, obj, objPrev

vars == <<points, prev, op, err, ret, steps, obj, objPrev>>

(* ------------------------------ bounds -------------------------------- *)

\* the longest point list SpecSegments starts from
MaxLen == 4

\* the most points a contour of Spec starts with
MaxPts == 6

(* --------------------------- plain helpers ---------------------------- *)

NoErr == "none"

Min(a, b) == IF a < b THEN a ELSE b

Last(s) == s[Len(s)]

Front(s) == SubSeq(s, 1, Len(s) - 1)

\* list.insert(i0, e): an index past the end appends
InsertAt(s, i0, e) ==
    LET k == Min(i0, Len(s))
    IN SubSeq(s, 1, k) \o <<e>> \o SubSeq(s, k + 1, Len(s))

\* del s[i0]
RemoveAt(s, i0) == SubSeq(s, 1, i0) \o SubSeq(s, i0 + 2, Len(s))

\* s.index(e) as a 0-based index, -1 when e is not in s
IndexOf(s, e) ==
    IF \E i \in 1..Len(s) : s[i] = e
    THEN (CHOOSE i \in 1..Len(s) : s[i] = e /\ \A j \in 1..(i - 1) : s[j] # e) - 1
    ELSE -1

RECURSIVE Flatten(_)
Flatten(ss) == IF Len(ss) = 0 THEN <<>> ELSE Head(ss) \o Flatten(Tail(ss))

Rotate(s, k) == SubSeq(s, k + 1, Len(s)) \o SubSeq(s, 1, k)

IsRotationOf(s, t) ==
    /\ Len(s) = Len(t)
    /\ \E k \in 0..Len(t) : s = Rotate(t, k)

(* ------------------------- points and contexts ------------------------ *)

PointTypes == {"move", "line", "curve", "qcurve", "offcurve"}

Point(position, type, smooth) == [pos |-> position, type |-> type, smooth |-> smooth]

Ctx(pts) == [at |-> pts, order |-> [i \in 1..Len(pts) |-> i], err |-> NoErr]

PointsOf(c) == [i \in 1..Len(c.order) |-> c.at[c.order[i]]]

Fail(c, e) == [c EXCEPT !.err = e]

\* BaseContour.insertPoint over a list-backed contour
insertPoint(c, index, position, type, smooth) ==
    IF c.err # NoErr THEN c
    ELSE [c EXCEPT !.at = Append(@, Point(position, type, smooth)),
                   !.order = InsertAt(@, index, Len(c.at) + 1)]

appendPoint(c, position, type, smooth) ==
    insertPoint(c, Len(c.order), position, type, smooth)

\* BaseContour.removePoint(point) with a point object
removePoint(c, point) ==
    IF c.err # NoErr THEN c
    ELSE LET index == IndexOf(c.order, point)
         IN IF index < 0 THEN Fail(c, "ValueError")
            ELSE [c EXCEPT !.order = RemoveAt(@, index)]

(* ------------------------------ segments ------------------------------ *)

\* The scan loop of _get_segments: every point joins the last group and an
\* on-curve point closes it.
RECURSIVE scanPoints(_, _, _)
scanPoints(c, i, segments) ==
    IF i > Len(c.order) THEN segments
    ELSE LET point == c.order[i]
             joined == [segments EXCEPT ![Len(segments)] = Append(@, point)]
         IN scanPoints(c, i + 1,
                IF c.at[point].type # "offcurve" THEN Append(joined, <<>>) ELSE joined)

\* A closed contour ending in off-curves: the trailing run takes the first
\* on-curve point as its on-curve and becomes the last segment.
wrapTrailing_keepFirst(segment, rest) == Append(rest, Append(segment, rest[1][1]))

wrapTrailing(segment, rest) == Append(Tail(rest), Append(segment, rest[1][1]))

\* A closed contour ending in an on-curve: the first group becomes the last.
rotateFirst(segments) == Append(Tail(segments), Head(segments))

\* BaseContour._get_segments: [err, segs], segs the segments in order, each
\* the identities of its points.
get_segments(c) ==
    LET finish(lastWasOffCurve, firstIsMove, s2) ==
            IF lastWasOffCurve /\ ~firstIsMove
            THEN IF Len(s2) < 2 THEN [err |-> "IndexError", segs |-> <<>>]
                 ELSE IF Len(s2[1]) # 1 THEN [err |-> "AssertionError", segs |-> <<>>]
                 ELSE [err |-> NoErr, segs |-> wrapTrailing(Last(s2), Front(s2))]
            ELSE IF ~lastWasOffCurve /\ ~firstIsMove
            THEN [err |-> NoErr, segs |-> rotateFirst(s2)]
            ELSE [err |-> NoErr, segs |-> s2]
        dropTrailing(lastWasOffCurve, firstIsMove, s1) ==
            finish(lastWasOffCurve, firstIsMove,
                   IF lastWasOffCurve /\ firstIsMove THEN Front(s1) ELSE s1)
        dropEmpty(lastWasOffCurve, firstIsMove, s0) ==
            dropTrailing(lastWasOffCurve, firstIsMove,
                         IF Len(Last(s0)) = 0 THEN Front(s0) ELSE s0)
    IN  IF Len(c.order) = 0 THEN [err |-> "IndexError", segs |-> <<>>]
        ELSE dropEmpty(c.at[Last(c.order)].type = "offcurve",
                       c.at[c.order[1]].type = "move",
                       scanPoints(c, 1, << <<>> >>))

\* BaseSegment.onCurve / offCurve / points
onCurve(segment) == Last(segment)

offCurve(segment) == Front(segment)

\* BaseSegment.type (read)
segmentType(c, segment) == c.at[onCurve(segment)].type

\* BaseContour._len__segments, -1 when the derivation raises
lenSegments(c) ==
    LET count(r) == IF r.err # NoErr THEN -1 ELSE Len(r.segs)
    IN count(get_segments(c))

\* ---- point attributes (writes go to the point object, in or out of the
\* ---- contour)

posOf(c, point) == c.at[point].pos

setPos(c, point, position) ==
    IF c.err # NoErr THEN c ELSE [c EXCEPT !.at[point].pos = position]

setType(c, point, type) ==
    IF c.err # NoErr THEN c ELSE [c EXCEPT !.at[point].type = type]

setSmooth(c, point, smooth) ==
    IF c.err # NoErr THEN c ELSE [c EXCEPT !.at[point].smooth = smooth]

RECURSIVE removePoints(_, _)
removePoints(c, pointList) ==
    IF Len(pointList) = 0 THEN c
    ELSE removePoints(removePoint(c, Head(pointList)), Tail(pointList))

\* s[i] with Python's indexing: i in -Len(s)..Len(s)-1
PyAt(s, i) == s[(IF i < 0 THEN i + Len(s) ELSE i) + 1]

PyInRange(s, i) == -Len(s) <= i /\ i < Len(s)

\* BaseSegment.type = newType: [c, seg], seg the segment object afterwards.
\* line <-> move changes the on-curve's type only; to line or move removes
\* the segment's off-curve points; to curve inserts two off-curve points
\* before the on-curve point, at the previous on-curve point and at the
\* on-curve point itself (zero-length handles).
set_segment_type(c, segment, newType) ==
    LET oldType == segmentType(c, segment)
        on == onCurve(segment)
        at == IndexOf(c.order, on)
        curved(r, i) ==
            IF r.err # NoErr THEN [c |-> Fail(c, r.err), seg |-> segment]
            ELSE IF i < 0 THEN [c |-> Fail(c, "ValueError"), seg |-> segment]
            ELSE [c |-> setType(
                          insertPoint(
                              insertPoint(c, at, posOf(c, on), "offcurve", FALSE),
                              at, posOf(c, onCurve(PyAt(r.segs, i - 1))),
                              "offcurve", FALSE),
                          on, newType),
                  seg |-> <<Len(c.at) + 2, Len(c.at) + 1, on>>]
        derived(r) == curved(r, IndexOf(r.segs, segment))
    IN  IF c.err # NoErr \/ oldType = newType THEN [c |-> c, seg |-> segment]
        ELSE IF newType \in {"move", "line"} /\ oldType \in {"move", "line"}
        THEN [c |-> setType(c, on, newType), seg |-> segment]
        ELSE IF newType \notin {"curve", "qcurve"}
        THEN [c |-> setType(removePoints(c, offCurve(segment)), on, newType),
              seg |-> <<on>>]
        ELSE derived(get_segments(c))

(* ------------------------- segment editing ---------------------------- *)

RECURSIVE insertOffCurves_forward(_, _, _)
insertOffCurves_forward(c, index, offCurves) ==
    IF Len(offCurves) = 0 THEN c
    ELSE insertOffCurves_forward(insertPoint(c, index, Head(offCurves), "offcurve", FALSE),
                                 index, Tail(offCurves))

RECURSIVE insertOffCurves(_, _, _)
insertOffCurves(c, index, offCurves) ==
    IF Len(offCurves) = 0 THEN c
    ELSE insertOffCurves(insertPoint(c, index, Last(offCurves), "offcurve", FALSE),
                         index, Front(offCurves))

\* BaseContour.insertSegment / _insertSegment: index is handed to insertPoint
\* as it is; the call returns None.
insertSegment(c, index, type, pts, smooth) ==
    IF c.err # NoErr THEN c
    ELSE IF Len(pts) = 0 THEN Fail(c, "IndexError")
    ELSE insertOffCurves(insertPoint(c, index, Last(pts), type, smooth),
                         index, Front(pts))

\* BaseContour.appendSegment / _appendSegment
appendSegment(c, type, pts, smooth) ==
    LET at(r) == IF r.err # NoErr THEN Fail(c, r.err)
                 ELSE insertSegment(c, Len(r.segs), type, pts, smooth)
    IN  IF c.err # NoErr THEN c ELSE at(get_segments(c))

\* BaseContour.removeSegment / _removeSegment with an index
removeSegment(c, segment) ==
    LET from(r) == IF r.err # NoErr THEN Fail(c, r.err)
                   ELSE IF segment >= Len(r.segs) THEN Fail(c, "FontPartsError")
                   ELSE removePoints(c, r.segs[segment + 1])
    IN  IF c.err # NoErr THEN c ELSE from(get_segments(c))

\* a collection that leaves out the last point
collectPoints_dropLast(c, pointList) == [i \in 1..(Len(pointList) - 1) |-> c.at[pointList[i]]]

\* the tuples _setStartSegment collects, as points
collectPoints(c, pointList) == [i \in 1..Len(pointList) |-> c.at[pointList[i]]]

RECURSIVE appendPoints(_, _)
appendPoints(c, pts) ==
    IF Len(pts) = 0 THEN c
    ELSE appendPoints(appendPoint(c, Head(pts).pos, Head(pts).type, Head(pts).smooth),
                      Tail(pts))

dedupIndex_last(segments) == Len(segments) - 1

\* _setStartSegment: the segment removed when the contour ends with a curve
\* on top of its first segment's on-curve point
dedupIndex(segments) == 0

\* BaseContour._setStartSegment
setStartSegment_impl(c, segmentIndex) ==
    LET reorder(c2, segs, cut) ==
            appendPoints(removePoints(c2, c2.order),
                         collectPoints(c2, Flatten(Rotate(segs, cut))))
        cutAt(c2, segs, k) ==
            reorder(c2, segs, IF k < 0 THEN 0 ELSE Min(k, Len(segs)))
        moveToLine(c1, r1, index) ==
            IF c1.err # NoErr THEN c1
            ELSE IF r1.err # NoErr THEN Fail(c1, r1.err)
            ELSE IF Len(r1.segs) = 0 THEN Fail(c1, "IndexError")
            ELSE cutAt(IF segmentType(c1, r1.segs[1]) = "move"
                       THEN set_segment_type(c1, r1.segs[1], "line").c
                       ELSE c1,
                       r1.segs,
                       IF index < 0 THEN index + Len(r1.segs) ELSE index)
        rederive(c1, r0, dup) ==
            moveToLine(c1, IF dup THEN get_segments(c1) ELSE r0,
                       IF dup THEN segmentIndex - 1 ELSE segmentIndex)
        dedup(r0, dup) ==
            rederive(IF dup THEN removeSegment(c, dedupIndex(r0.segs)) ELSE c, r0, dup)
        start(r0) ==
            dedup(r0, /\ segmentType(c, Last(r0.segs)) \in {"curve", "qcurve"}
                      /\ posOf(c, onCurve(r0.segs[1])) = posOf(c, onCurve(Last(r0.segs))))
    IN  start(get_segments(c))

setStartSegment_offByOne(c, segment) ==
    LET checked(r) ==
            IF r.err # NoErr THEN Fail(c, r.err)
            ELSE IF Len(r.segs) < 2 THEN c
            ELSE IF segment = 0 THEN c
            ELSE IF segment > Len(r.segs) THEN Fail(c, "FontPartsError")
            ELSE setStartSegment_impl(c, segment)
    IN  IF c.err # NoErr THEN c ELSE checked(get_segments(c))

\* BaseContour.setStartSegment with an index
setStartSegment(c, segment) ==
    LET checked(r) ==
            IF r.err # NoErr THEN Fail(c, r.err)
            ELSE IF Len(r.segs) < 2 THEN c
            ELSE IF segment = 0 THEN c
            ELSE IF segment >= Len(r.segs) THEN Fail(c, "FontPartsError")
            ELSE setStartSegment_impl(c, segment)
    IN  IF c.err # NoErr THEN c ELSE checked(get_segments(c))

(* ------------------------------ bPoints ------------------------------- *)

Zero == <<0, 0>>

Plus(a, b) == <<a[1] + b[1], a[2] + b[2]>>

Minus(a, b) == <<a[1] - b[1], a[2] - b[2]>>

relativeBCPIn(anchor, BCPIn) == Minus(BCPIn, anchor)

absoluteBCPIn_relative(anchor, BCPIn) == BCPIn

absoluteBCPIn(anchor, BCPIn) == Plus(BCPIn, anchor)

relativeBCPOut(anchor, BCPOut) == Minus(BCPOut, anchor)

absoluteBCPOut(anchor, BCPOut) == Plus(BCPOut, anchor)

\* Python's None, where a segment is expected
None == <<>>

get_bPoints_onCurves(c) == SelectSeq(c.order, LAMBDA id : c.at[id].type # "offcurve")

\* BaseContour._get_bPoints: the points a bPoint stands for, in order
get_bPoints(c) == SelectSeq(c.order, LAMBDA id : c.at[id].type \in {"move", "line", "curve"})

\* BaseBPoint._get_base_segment: [err, seg]
get_base_segment(c, point) ==
    LET first(r, hits) ==
            IF r.err # NoErr THEN [err |-> r.err, seg |-> None]
            ELSE IF hits = {} THEN [err |-> NoErr, seg |-> None]
            ELSE [err |-> NoErr, seg |-> r.segs[CHOOSE i \in hits : \A j \in hits : i <= j]]
        among(r) == first(r, {i \in 1..Len(r.segs) : onCurve(r.segs[i]) = point})
    IN  among(get_segments(c))

\* BaseBPoint._get_base_nextSegment: [err, seg]
get_base_nextSegment(c, point) ==
    LET at(r, found) ==
            IF r.err # NoErr THEN [err |-> r.err, seg |-> None]
            ELSE IF found < 0 THEN [err |-> "ValueError", seg |-> None]
            ELSE [err |-> NoErr,
                  seg |-> r.segs[(IF found + 1 >= Len(r.segs)
                                  THEN (found + 1) % Len(r.segs)
                                  ELSE found + 1) + 1]]
        after(r, s) == at(r, IndexOf(r.segs, s.seg))
    IN  after(get_segments(c), get_base_segment(c, point))

\* BaseBPoint._get_anchor
get_anchor(c, point) == posOf(c, point)

\* BaseBPoint._get_bcpIn: [err, v]
get_bcpIn(c, point) ==
    LET read(s) ==
            IF s.err # NoErr THEN [err |-> s.err, v |-> Zero]
            ELSE IF s.seg = None THEN [err |-> "AttributeError", v |-> Zero]
            ELSE IF Len(offCurve(s.seg)) > 0
            THEN [err |-> NoErr,
                  v |-> relativeBCPIn(get_anchor(c, point), posOf(c, Last(offCurve(s.seg))))]
            ELSE [err |-> NoErr, v |-> Zero]
    IN  read(get_base_segment(c, point))

\* BaseBPoint._get_bcpOut: [err, v]
get_bcpOut(c, point) ==
    LET read(s) ==
            IF s.err # NoErr THEN [err |-> s.err, v |-> Zero]
            ELSE IF Len(offCurve(s.seg)) > 0
            THEN [err |-> NoErr,
                  v |-> relativeBCPOut(get_anchor(c, point), posOf(c, offCurve(s.seg)[1]))]
            ELSE [err |-> NoErr, v |-> Zero]
    IN  read(get_base_nextSegment(c, point))

\* the guard of _set_bcpIn and of _set_bcpOut: a non-zero handle towards a move
handleRefused_never(type, value) == FALSE

handleRefused(type, value) == type = "move" /\ value # Zero

\* BaseBPoint._set_bcpIn
set_bcpIn(c, point, value) ==
    LET xy == absoluteBCPIn(get_anchor(c, point), value)
        \* s: the bPoint's segment; out: self.bcpOut; t: the segment after
        \* segment.type = "line" (it has off-curves) or "curve" (it has none)
        assign(s, out, t) ==
            IF s.err # NoErr THEN Fail(c, s.err)
            ELSE IF s.seg = None THEN Fail(c, "AttributeError")
            ELSE IF handleRefused(segmentType(c, s.seg), value)
            THEN Fail(c, "FontPartsError")
            ELSE IF Len(offCurve(s.seg)) > 0
            THEN IF value = Zero
                 THEN IF out.err # NoErr THEN Fail(c, out.err)
                      ELSE IF out.v = Zero
                      THEN setSmooth(t.c, onCurve(s.seg), FALSE)
                      ELSE setPos(c, Last(offCurve(s.seg)), xy)
                 ELSE setPos(c, Last(offCurve(s.seg)), xy)
            ELSE IF value # Zero
            THEN IF t.c.err # NoErr THEN t.c
                 ELSE IF Len(offCurve(t.seg)) = 0 THEN Fail(t.c, "IndexError")
                 ELSE setPos(t.c, Last(offCurve(t.seg)), xy)
            ELSE c
        on(s) == assign(s, get_bcpOut(c, point),
                        set_segment_type(c, s.seg,
                            IF Len(offCurve(s.seg)) > 0 THEN "line" ELSE "curve"))
    IN  IF c.err # NoErr THEN c ELSE on(get_base_segment(c, point))

\* BaseBPoint._set_bcpOut.  Where the next segment has off-curve points and
\* both handles end up zero the code assigns .type to the off-curve tuple,
\* which raises; where the next segment is turned into a curve the code then
\* reads the off-curve points of the bPoint's own segment.
set_bcpOut(c, point, value) ==
    LET xy == absoluteBCPOut(get_anchor(c, point), value)
        \* s, n: the bPoint's segment and next segment; in: self.bcpIn; t: the
        \* next segment after nextSegment.type = "curve"
        assign(s, n, in, t) ==
            IF s.err # NoErr THEN Fail(c, s.err)
            ELSE IF n.err # NoErr THEN Fail(c, n.err)
            ELSE IF handleRefused(segmentType(c, n.seg), value)
            THEN Fail(c, "FontPartsError")
            ELSE IF Len(offCurve(n.seg)) > 0
            THEN IF value = Zero
                 THEN IF in.err # NoErr THEN Fail(c, in.err)
                      ELSE IF in.v = Zero THEN Fail(c, "AttributeError")
                      ELSE setPos(c, offCurve(n.seg)[1], xy)
                 ELSE setPos(c, offCurve(n.seg)[1], xy)
            ELSE IF value # Zero
            THEN IF t.c.err # NoErr THEN t.c
                 ELSE IF Len(offCurve(s.seg)) = 0 THEN Fail(t.c, "IndexError")
                 ELSE setPos(t.c, offCurve(s.seg)[1], xy)
            ELSE c
        on(s, n) == assign(s, n, get_bcpIn(c, point),
                           set_segment_type(c, n.seg, "curve"))
    IN  IF c.err # NoErr THEN c
        ELSE on(get_base_segment(c, point), get_base_nextSegment(c, point))

\* BaseBPoint._transformBy with the offset matrix moveBy builds: the anchor
\* and both handles are moved, the handles through their setters
moveBPointBy(c, point, delta) ==
    LET anchor == get_anchor(c, point)
        newAnchor == Plus(anchor, delta)
        move(in, out) ==
            IF in.err # NoErr THEN Fail(c, in.err)
            ELSE IF out.err # NoErr THEN Fail(c, out.err)
            ELSE set_bcpOut(
                     set_bcpIn(setPos(c, point, newAnchor), point,
                               relativeBCPIn(newAnchor,
                                   Plus(absoluteBCPIn(anchor, in.v), delta))),
                     point,
                     relativeBCPOut(newAnchor,
                         Plus(absoluteBCPOut(anchor, out.v), delta)))
    IN  IF c.err # NoErr THEN c
        ELSE move(get_bcpIn(c, point), get_bcpOut(c, point))

\* BaseBPoint._set_anchor
set_anchor(c, point, value) == moveBPointBy(c, point, Minus(value, get_anchor(c, point)))

\* BaseBPoint._get_type: [err, v]
get_type(c, point) ==
    IF c.at[point].type = "curve" /\ c.at[point].smooth
    THEN [err |-> NoErr, v |-> "curve"]
    ELSE IF c.at[point].type \in {"move", "line", "curve"}
    THEN [err |-> NoErr, v |-> "corner"]
    ELSE [err |-> "FontPartsError", v |-> "corner"]

\* BaseBPoint._set_type
set_type(c, point, value) ==
    LET curved(s) ==
            IF s.err # NoErr THEN Fail(c, s.err)
            ELSE IF s.seg = None THEN Fail(c, "AttributeError")
            ELSE setSmooth(set_segment_type(c, s.seg, "curve").c, point, TRUE)
    IN  IF c.err # NoErr THEN c
        ELSE IF value = "curve" /\ c.at[point].type = "line"
        THEN curved(get_base_segment(c, point))
        ELSE IF value = "corner" /\ c.at[point].type = "curve"
        THEN setSmooth(c, point, FALSE)
        ELSE c

\* BaseContour.insertBPoint / _insertBPoint.  insertSegment and
\* appendSegment return None, so every use of the segment they are expected
\* to return raises AttributeError.
insertBPoint(c, index, type, anchor, bcpIn, bcpOut) ==
    LET \* the segment after the inserted one is fetched and then the None
        \* that insertSegment returned is used
        follow(c1, r1, n) ==
            IF r1.err # NoErr THEN Fail(c1, r1.err)
            ELSE IF segmentType(c1, PyAt(r1.segs, n)) = "move"
            THEN Fail(c1, "FontPartsError")
            ELSE IF segmentType(c1, PyAt(r1.segs, n)) = "qcurve"
            THEN c1
            ELSE Fail(c1, "AttributeError")
        derived(c1, r1) == follow(c1, r1, IF index + 1 >= Len(r1.segs) THEN 0 ELSE index + 1)
        inserted(c1) == derived(c1, get_segments(c1))
        \* on a move: the segment for bcpOut, appended on top of the move
        outgoing(c1, nextOn) ==
            IF c1.err # NoErr THEN c1
            ELSE IF bcpOut # Zero
            THEN appendSegment(c1, "curve",
                     <<absoluteBCPOut(anchor, bcpOut),
                       posOf(c1, nextOn), posOf(c1, nextOn)>>, FALSE)
            ELSE c1
        \* on a move: new.smooth = True on the None that appendSegment returned
        smoothed(a) ==
            IF bcpIn # Zero /\ type = "curve" THEN Fail(a, "AttributeError") ELSE a
        before(segments) ==
            IF ~PyInRange(segments, index) THEN Fail(c, "IndexError")
            ELSE IF segmentType(c, PyAt(segments, index)) \notin {"move", "line", "curve"}
            THEN Fail(c, "FontPartsError")
            ELSE IF segmentType(c, PyAt(segments, index)) = "move"
            THEN outgoing(
                     smoothed(
                         appendSegment(c,
                             IF bcpIn # Zero THEN "curve" ELSE "line",
                             IF bcpIn # Zero
                             THEN <<posOf(c, onCurve(PyAt(segments, index - 1))),
                                    absoluteBCPIn(anchor, bcpIn), anchor>>
                             ELSE <<anchor>>,
                             FALSE)),
                     onCurve(PyAt(segments, index)))
            ELSE IF segmentType(c, PyAt(segments, index)) = "curve"
                    /\ Len(offCurve(PyAt(segments, index))) = 0
            THEN Fail(c, "IndexError")
            ELSE inserted(
                     insertSegment(c, index, "curve",
                         <<IF segmentType(c, PyAt(segments, index)) = "curve"
                           THEN posOf(c, offCurve(PyAt(segments, index))[1])
                           ELSE posOf(c, onCurve(PyAt(segments, index - 1))),
                           anchor, anchor>>,
                         FALSE))
        on(r) == IF r.err # NoErr THEN Fail(c, r.err) ELSE before(r.segs)
    IN  IF c.err # NoErr THEN c ELSE on(get_segments(c))

\* BaseContour.appendBPoint / _appendBPoint: an insertBPoint at the number
\* of bPoints
appendBPoint(c, type, anchor, bcpIn, bcpOut) ==
    insertBPoint(c, Len(get_bPoints(c)), type, anchor, bcpIn, bcpOut)

\* BaseContour.removeBPoint / _removeBPoint with an index: the range check
\* is against the number of points; the bPoint's segment is derived again
\* after the next segment's first off-curve point is removed.
removeBPoint(c, index) ==
    LET point == get_bPoints(c)[index + 1]
        removeOwn(c1, s) ==
            IF c1.err # NoErr THEN c1
            ELSE IF s.err # NoErr THEN Fail(c1, s.err)
            ELSE IF s.seg = None THEN Fail(c1, "AttributeError")
            ELSE removePoint(IF Len(offCurve(s.seg)) > 0
                             THEN removePoint(c1, Last(offCurve(s.seg)))
                             ELSE c1,
                             point)
        own(c1) == removeOwn(c1, get_base_segment(c1, point))
        removeNext(n) ==
            IF n.err # NoErr THEN Fail(c, n.err)
            ELSE IF Len(offCurve(n.seg)) > 0 THEN removePoint(c, offCurve(n.seg)[1])
            ELSE c
    IN  IF c.err # NoErr THEN c
        ELSE IF index >= Len(c.order) THEN Fail(c, "FontPartsError")
        ELSE IF index >= Len(get_bPoints(c)) THEN Fail(c, "IndexError")
        ELSE own(removeNext(get_base_nextSegment(c, point)))

(* --------------------------- compatibility ---------------------------- *)

\* BaseContour.open: the contour starts with a move point
get_open(c) == Len(c.order) > 0 /\ c.at[c.order[1]].type = "move"

\* twice the signed area of the polygon through the points of c
RECURSIVE area2(_, _)
area2(c, i) ==
    IF i > Len(c.order) THEN 0
    ELSE LET p == c.at[c.order[i]].pos
             q == c.at[c.order[(i % Len(c.order)) + 1]].pos
         IN (p[1] * q[2] - q[1] * p[2]) + area2(c, i + 1)

\* BaseContour.clockwise: the sign of the area
get_clockwise(c) == area2(c, 1) < 0

\* BaseContour.reverse: calls self._reverseContour, a method that no class
\* defines (the overridable method is _reverse)
reverse(c) == Fail(c, "AttributeError")

\* BaseContour._set_base_clockwise / _set_clockwise
set_clockwise(c, value) ==
    IF c.err # NoErr THEN c
    ELSE IF get_clockwise(c) # value THEN reverse(c)
    ELSE c

\* BaseSegment.isCompatible: a type mismatch is fatal, a smooth mismatch a
\* warning
segmentIsCompatible(c1, segment1, c2, segment2) ==
    [fatal |-> segmentType(c1, segment1) # segmentType(c2, segment2),
     warning |-> c1.at[onCurve(segment1)].smooth # c2.at[onCurve(segment2)].smooth]

\* BaseContour.isCompatible / _isCompatible: the reporter, err the exception
\* raised while it is filled
isCompatible(c1, c2) ==
    LET report(r1, r2, pairs) ==
            [err |-> IF r1.err # NoErr THEN r1.err ELSE r2.err,
             openDifference |-> get_open(c1) # get_open(c2),
             directionDifference |-> get_clockwise(c1) # get_clockwise(c2),
             segmentCountDifference |->
                 r1.err = NoErr /\ r2.err = NoErr /\ Len(r1.segs) # Len(r2.segs),
             fatal |-> /\ r1.err = NoErr /\ r2.err = NoErr
                       /\ \/ Len(r1.segs) # Len(r2.segs)
                          \/ \E i \in pairs :
                                segmentIsCompatible(c1, r1.segs[i], c2, r2.segs[i]).fatal,
             warning |-> /\ r1.err = NoErr /\ r2.err = NoErr
                         /\ \E i \in pairs :
                               segmentIsCompatible(c1, r1.segs[i], c2, r2.segs[i]).warning]
        compare(r1, r2) == report(r1, r2, 1..Min(Len(r1.segs), Len(r2.segs)))
    IN  compare(get_segments(c1), get_segments(c2))

(* ------------------------------ state --------------------------------- *)

NoOp == [name |-> "init", index |-> 0, type |-> "line", smooth |-> FALSE,
         pts |-> <<>>, v |-> <<0, 0>>, w |-> <<0, 0>>]

Op(name, index, type, smooth, pts, v, w) ==
    [name |-> name, index |-> index, type |-> type, smooth |-> smooth,
     pts |-> pts, v |-> v, w |-> w]

\* the state after an operation that took the contour from points to c and
\* returned r
Done(c, o, r) ==
    /\ points' = PointsOf(c)
    /\ prev' = points
    /\ op' = o
    /\ err' = c.err
    /\ ret' = r
    /\ steps' = steps + 1
    /\ UNCHANGED <<obj, objPrev>>

(* ---------------- SpecSegments: any point list, derived --------------- *)

\* every list of at most MaxLen points, over all point types
TypeLists == UNION {[1..n -> PointTypes] : n \in 0..MaxLen}

InitSegments ==
    /\ \E ts \in TypeLists :
          points = [i \in 1..Len(ts) |-> Point(<<i, 0>>, ts[i], FALSE)]
    /\ prev = points
    /\ op = NoOp
    /\ err = NoErr
    /\ ret = <<>>
    /\ steps = 0
    /\ obj = <<>>
    /\ objPrev = <<>>

\* contour.segments on any list
SegmentsOp ==
    /\ steps = 0
    /\ LET done(r) ==
               Done(Fail(Ctx(points), r.err),
                    Op("segments", 0, "line", FALSE, <<>>, <<0, 0>>, <<0, 0>>), r.segs)
       IN done(get_segments(Ctx(points)))

\* One insertPoint on any list: Init already holds every list, so a second
\* step would reach nothing new.
InsertPointOp ==
    /\ steps = 0
    /\ \E index \in 0..Len(points), type \in PointTypes :
          Done(insertPoint(Ctx(points), index, <<0, 0>>, type, FALSE),
               Op("insertPoint", index, type, FALSE, <<>>, <<0, 0>>, <<0, 0>>), <<>>)

\* contour.bPoints, each read as its anchor
BPointsOp ==
    /\ steps = 0
    /\ LET c == Ctx(points)
       IN Done(c, Op("bPoints", 0, "line", FALSE, <<>>, <<0, 0>>, <<0, 0>>),
               [k \in 1..Len(get_bPoints(c)) |-> get_anchor(c, get_bPoints(c)[k])])

NextSegments == SegmentsOp \/ InsertPointOp \/ BPointsOp

SpecSegments == InitSegments /\ [][NextSegments]_vars

(* ------------- SpecCompat: two point lists, compared ------------------ *)

\* the longest point list of SpecCompat
MaxCompatLen == 3

\* where the points of the two lists lie: a triangle, walked one way or the
\* other
Corner(i, reversed) ==
    LET k == IF reversed THEN 4 - i ELSE i
    IN IF k = 1 THEN <<0, 0>> ELSE IF k = 2 THEN <<1, 0>> ELSE <<0, 1>>

CompatLists == UNION {[1..n -> PointTypes] : n \in 0..MaxCompatLen}

InitCompat ==
    /\ \E ts \in CompatLists, sm \in BOOLEAN, reversed \in BOOLEAN :
          points = [i \in 1..Len(ts) |->
                       Point(Corner(i, reversed), ts[i], sm /\ ts[i] = "curve")]
    /\ prev = points
    /\ op = NoOp
    /\ err = NoErr
    /\ ret = <<>>
    /\ steps = 0
    /\ obj = <<>>
    /\ objPrev = <<>>

\* contour.isCompatible(other); op.pts holds the points of other and the
\* reporter is returned
IsCompatibleOp ==
    /\ steps = 0
    /\ \E ts \in CompatLists, reversed \in BOOLEAN :
          LET other == [i \in 1..Len(ts) |-> Point(Corner(i, reversed), ts[i], FALSE)]
              done(r) ==
                  Done(Fail(Ctx(points), r.err),
                       Op("isCompatible", 0, "line", FALSE, other, Zero, Zero), r)
          IN done(isCompatible(Ctx(points), Ctx(other)))

\* contour.clockwise = value; returns what contour.clockwise reads afterwards
SetClockwiseOp ==
    /\ steps = 0
    /\ \E value \in BOOLEAN :
          LET done(c) == Done(c, Op("clockwise", 0, "line", value, <<>>, Zero, Zero),
                              get_clockwise(c))
          IN done(set_clockwise(Ctx(points), value))

NextCompat == IsCompatibleOp \/ SetClockwiseOp

SpecCompat == InitCompat /\ [][NextCompat]_vars

(* ------------- SpecAnchor: an anchor and a contour, transformed -------- *)

\* the largest absolute value of a coordinate of SpecAnchor's objects
MaxCoord == 1

\* the integer matrices (a, b, c, d, e, f) handed to transformBy
Matrices ==
    {<<a, b, c, d, e, f>> : a \in {-1, 0, 2}, b \in {0, 1}, c \in {0, 1},
                            d \in {-1, 0, 2}, e \in {0, 1}, f \in {0, 1}}

\* the origins handed to transformBy: None, or a coordinate
Origins == {None} \cup (((-MaxCoord)..MaxCoord) \X ((-MaxCoord)..MaxCoord))

\* a Python value handed to a setter: its type and its text
Value(kind, v) == [kind |-> kind, v |-> v]

NoneValue == Value("NoneType", "None")

\* fontTools' Transform(*matrix).transformPoint
transformPoint(matrix, p) ==
    <<matrix[1] * p[1] + matrix[3] * p[2] + matrix[5],
      matrix[2] * p[1] + matrix[4] * p[2] + matrix[6]>>

\* an originOffset computed for every origin, (0,0) included
originOffset_always(matrix, origin) ==
    LET o == IF origin = None THEN Zero ELSE origin
    IN Minus(o, transformPoint(matrix, o))

\* TransformationMixin.transformBy up to the call of _transformBy: the
\* originOffset handed on
originOffset(matrix, origin) ==
    LET o == IF origin = None THEN Zero ELSE origin
    IN IF o = Zero THEN Zero ELSE Minus(o, transformPoint(matrix, o))

\* TransformationMixin.moveBy / _moveBy on an anchor: a transformBy with
\* the offset matrix and no origin
anchor_moveBy(a, value) ==
    LET at(p) == [a EXCEPT !.x = p[1], !.y = p[2]]
    IN at(transformPoint(<<1, 0, 0, 1, value[1], value[2]>>, <<a.x, a.y>>))

\* BaseAnchor._transformBy
anchor_transformBy(a, matrix, offset) ==
    LET at(p) == [a EXCEPT !.x = p[1], !.y = p[2]]
        moved(a1) == IF offset # Zero THEN anchor_moveBy(a1, offset) ELSE a1
    IN moved(at(transformPoint(matrix, <<a.x, a.y>>)))

\* anchor.transformBy(matrix, origin)
transformBy(a, matrix, origin) == anchor_transformBy(a, matrix, originOffset(matrix, origin))

\* point.transformBy(matrix, origin) on the point of identity id
point_transformBy(c, id, matrix, origin) ==
    LET moved(p, offset) == IF offset # Zero THEN Plus(p, offset) ELSE p
        at(p) == [c EXCEPT !.at[id].pos = p]
    IN at(moved(transformPoint(matrix, c.at[id].pos), originOffset(matrix, origin)))

\* BaseContour._transformBy: every point of self.points, from the k-th on
RECURSIVE contour_transformBy(_, _, _, _)
contour_transformBy(c, k, matrix, origin) ==
    IF k > Len(c.order) THEN c
    ELSE contour_transformBy(point_transformBy(c, c.order[k], matrix, origin),
                             k + 1, matrix, origin)

\* normalizers.normalizeAnchorName: [err, v]
normalizeAnchorName(value) ==
    IF value.kind = "str" THEN [err |-> NoErr, v |-> value]
    ELSE [err |-> "FontPartsError", v |-> value]

\* a setter that stores the value as it is given
set_base_name_unchecked(a, value) == [err |-> NoErr, a |-> [a EXCEPT !.name = value]]

\* BaseAnchor._set_base_name: [err, a], a the anchor afterwards
set_base_name(a, value) ==
    LET store(n) ==
            IF n.err # NoErr THEN [err |-> n.err, a |-> a]
            ELSE [err |-> NoErr, a |-> [a EXCEPT !.name = n.v]]
    IN IF value = NoneValue THEN [err |-> NoErr, a |-> [a EXCEPT !.name = value]]
       ELSE store(normalizeAnchorName(value))

\* BaseAnchor._get_base_name: [err, v]
get_base_name(a) ==
    IF a.name = NoneValue THEN [err |-> NoErr, v |-> a.name]
    ELSE normalizeAnchorName(a.name)

\* an anchor and a contour of two line points
InitAnchor ==
    /\ \E x \in (-MaxCoord)..MaxCoord, y \in (-MaxCoord)..MaxCoord, q \in {Zero, <<1, 0>>},
          name \in {NoneValue, Value("str", "testAnchor1")} :
          /\ obj = [x |-> x, y |-> y, name |-> name]
          /\ points = <<Point(<<x, y>>, "line", FALSE), Point(q, "line", FALSE)>>
    /\ objPrev = obj
    /\ prev = points
    /\ op = NoOp
    /\ err = NoErr
    /\ ret = <<>>
    /\ steps = 0

\* the state after a call on the object held in obj that left it as o, ended
\* with e and returned r
DoneObj(o, call, e, r) ==
    /\ obj' = o
    /\ objPrev' = obj
    /\ op' = call
    /\ err' = e
    /\ ret' = r
    /\ steps' = steps + 1
    /\ UNCHANGED <<points, prev>>

AnchorTransformByOp ==
    /\ steps = 0
    /\ \E matrix \in Matrices, origin \in Origins :
          DoneObj(transformBy(obj, matrix, origin),
                  Op("anchor.transformBy", 0, "line", FALSE, matrix, origin, Zero),
                  NoErr, <<>>)

ContourTransformByOp ==
    /\ steps = 0
    /\ \E matrix \in Matrices, origin \in Origins :
          Done(contour_transformBy(Ctx(points), 1, matrix, origin),
               Op("contour.transformBy", 0, "line", FALSE, matrix, origin, Zero), <<>>)

\* anchor.name = value; returns what anchor.name reads afterwards
SetNameOp ==
    /\ steps = 0
    /\ \E value \in {Value("str", "foo"), Value("str", "testAnchor1"), Value("int", "123"), NoneValue} :
          LET done(r) ==
                  DoneObj(r.a, Op("anchor.name", 0, "line", FALSE, <<value>>, Zero, Zero),
                          r.err, get_base_name(r.a))
          IN done(set_base_name(obj, value))

NextAnchor ==
    \/ AnchorTransformByOp
    \/ ContourTransformByOp
    \/ SetNameOp

SpecAnchor == InitAnchor /\ [][NextAnchor]_vars

(* ------------- SpecDict: a dict-like object, edited -------------------- *)

\* the most calls made on the dict-like object
MaxOps == 3

\* kerning pairs that the key validator accepts ("bad key" is one it refuses)
ValidKeys == {"A A", "B X"}

\* kerning values that the value validator accepts (-1 stands for one it refuses)
ValidValues == {100, 103}

\* A dict-like object is [store, validated]: the pairs its environment
\* stores, and whether its class sets keyValidator and valueValidator (as
\* kerning does) or leaves them None (as BaseDict does).

EmptyStore == [k \in {} |-> 0]

\* the dicts handed to update
Others == UNION {[ks -> ValidValues \cup {-1}] : ks \in SUBSET (ValidKeys \cup {"bad key"})}

\* keyValidator.im_func(key) where a key validator is set: [err, v]
validKey(d, key) ==
    IF d.validated /\ key \notin ValidKeys THEN [err |-> "FontPartsError", v |-> key]
    ELSE [err |-> NoErr, v |-> key]

\* valueValidator.im_func(value) where a value validator is set: [err, v]
validValue(d, value) ==
    IF d.validated /\ value \notin ValidValues THEN [err |-> "FontPartsError", v |-> value]
    ELSE [err |-> NoErr, v |-> value]

\* BaseDict.items: [err, v], v the stored pairs; the list returned is bound
\* only when both validators are set
dict_items(d) ==
    IF d.validated THEN [err |-> NoErr, v |-> d.store]
    ELSE [err |-> "UnboundLocalError", v |-> EmptyStore]

\* BaseDict.keys / _keys: [err, v], v the set of keys
dict_keys(d) ==
    LET of(items) == [err |-> items.err, v |-> DOMAIN items.v]
    IN of(dict_items(d))

\* BaseDict.__len__ / _len: [err, v]
dict_len(d) ==
    LET of(keys) == [err |-> keys.err, v |-> Cardinality(keys.v)]
    IN of(dict_keys(d))

\* BaseDict.__contains__: [err, v]
dict_contains(d, key) ==
    LET has(k) == IF k.err # NoErr THEN [err |-> k.err, v |-> FALSE]
                  ELSE [err |-> NoErr, v |-> k.v \in DOMAIN d.store]
    IN has(validKey(d, key))

\* BaseDict.__getitem__: [err, v]
dict_getitem(d, key) ==
    LET get(k) == IF k.err # NoErr THEN [err |-> k.err, v |-> 0]
                  ELSE IF k.v \notin DOMAIN d.store THEN [err |-> "KeyError", v |-> 0]
                  ELSE [err |-> NoErr, v |-> d.store[k.v]]
    IN get(validKey(d, key))

\* the environment's _setItem
setItem(d, key, value) ==
    [d EXCEPT !.store = [k \in DOMAIN d.store \cup {key} |->
                            IF k = key THEN value ELSE d.store[k]]]

\* the environment's _delItem
delItem(d, key) == [d EXCEPT !.store = [k \in DOMAIN d.store \ {key} |-> d.store[k]]]

\* BaseDict.__setitem__: [err, d]
dict_setitem(d, key, value) ==
    LET set(k, v) == IF k.err # NoErr THEN [err |-> k.err, d |-> d]
                     ELSE IF v.err # NoErr THEN [err |-> v.err, d |-> d]
                     ELSE [err |-> NoErr, d |-> setItem(d, k.v, v.v)]
    IN set(validKey(d, key), validValue(d, value))

\* BaseDict.__delitem__: [err, d]
dict_delitem(d, key) ==
    LET del(k) == IF k.err # NoErr THEN [err |-> k.err, d |-> d]
                  ELSE IF k.v \notin DOMAIN d.store THEN [err |-> "KeyError", d |-> d]
                  ELSE [err |-> NoErr, d |-> delItem(d, k.v)]
    IN del(validKey(d, key))

\* BaseDict._update: self[key] = value for the pairs of other not yet in done
RECURSIVE dict_updateFrom(_, _, _)
dict_updateFrom(r, other, done) ==
    IF r.err # NoErr \/ done = DOMAIN other THEN r
    ELSE LET key == CHOOSE k \in DOMAIN other \ done : TRUE
         IN dict_updateFrom(dict_setitem(r.d, key, other[key]), other, done \cup {key})

\* BaseDict.update: the pairs are validated into a dict that is not used,
\* then _update assigns the pairs of other
dict_update(d, other) ==
    IF d.validated /\ \E k \in DOMAIN other : k \notin ValidKeys \/ other[k] \notin ValidValues
    THEN [err |-> "FontPartsError", d |-> d]
    ELSE dict_updateFrom([err |-> NoErr, d |-> d], other, {})

\* BaseDict._clear: del self[key] for the keys not yet in done
RECURSIVE dict_clearFrom(_, _, _)
dict_clearFrom(r, keys, done) ==
    IF r.err # NoErr \/ done = keys THEN r
    ELSE LET key == CHOOSE k \in keys \ done : TRUE
         IN dict_clearFrom(dict_delitem(r.d, key), keys, done \cup {key})

\* a clear that deletes nothing
dict_clear_keep(d) == [err |-> NoErr, d |-> d]

\* BaseDict.clear / _clear
dict_clear(d) ==
    LET over(keys) == IF keys.err # NoErr THEN [err |-> keys.err, d |-> d]
                      ELSE dict_clearFrom([err |-> NoErr, d |-> d], keys.v, {})
    IN over(dict_keys(d))

\* what len(d), key in d and d[key] give
readDict(d) ==
    [len |-> dict_len(d),
     has |-> [k \in ValidKeys |-> dict_contains(d, k)],
     get |-> [k \in ValidKeys |-> dict_getitem(d, k)]]

\* an empty dict-like object
InitDict ==
    /\ \E validated \in BOOLEAN : obj = [store |-> EmptyStore, validated |-> validated]
    /\ objPrev = obj
    /\ points = <<>>
    /\ prev = <<>>
    /\ op = NoOp
    /\ err = NoErr
    /\ ret = <<>>
    /\ steps = 0

SetItemOp ==
    /\ steps < MaxOps
    /\ \E key \in ValidKeys \cup {"bad key"}, value \in ValidValues \cup {-1} :
          LET done(r) == DoneObj(r.d, Op("setitem", value, key, FALSE, <<>>, Zero, Zero),
                                r.err, readDict(r.d))
          IN done(dict_setitem(obj, key, value))

DelItemOp ==
    /\ steps < MaxOps
    /\ \E key \in ValidKeys \cup {"bad key"} :
          LET done(r) == DoneObj(r.d, Op("delitem", 0, key, FALSE, <<>>, Zero, Zero),
                                r.err, readDict(r.d))
          IN done(dict_delitem(obj, key))

UpdateOp ==
    /\ steps < MaxOps
    /\ \E other \in Others :
          LET done(r) == DoneObj(r.d, Op("update", 0, "line", FALSE, other, Zero, Zero),
                                r.err, readDict(r.d))
          IN done(dict_update(obj, other))

ClearOp ==
    /\ steps < MaxOps
    /\ LET done(r) == DoneObj(r.d, Op("clear", 0, "line", FALSE, <<>>, Zero, Zero),
                                r.err, readDict(r.d))
          IN done(dict_clear(obj))

NextDict ==
    \/ SetItemOp
    \/ DelItemOp
    \/ UpdateOp
    \/ ClearOp

SpecDict == InitDict /\ [][NextDict]_vars

(* ------------- SpecCopy: a glyph or a font, copied ---------------------- *)

\* the most guidelines of a glyph or a font of SpecCopy
MaxGuides == 2

\* a guideline: the attributes BaseGuideline copies
Guideline(x, y, angle, name, color) ==
    [x |-> x, y |-> y, angle |-> angle, name |-> name, color |-> color]

GuidelineLists ==
    UNION {[1..n -> {Guideline(x, 0, 90, name, "None") :
                        x \in {0, 50}, name \in {"None", "overshoot"}}] : n \in 0..MaxGuides}

\* a glyph or a font: its guidelines, its anchors (a glyph's) or layer
\* names (a font's) and whether its image holds data (a glyph's)
Holder(kind, guidelines, parts, image) ==
    [kind |-> kind, guidelines |-> guidelines, parts |-> parts, image |-> image]

\* appendGuideline((0, 0), 0) followed by copyData(sourceGuideline) on the
\* new guideline: the attributes of copyAttributes are set from the source
copiedGuideline(sourceGuideline) ==
    [Guideline(0, 0, 0, "None", "None") EXCEPT
        !.x = sourceGuideline.x, !.y = sourceGuideline.y,
        !.angle = sourceGuideline.angle, !.name = sourceGuideline.name,
        !.color = sourceGuideline.color]

\* the guideline loop of copyData: for sourceGuideline in self.guidelines
copyGuidelines(self, source) ==
    LET over(own) ==
            [self EXCEPT !.guidelines =
                own \o [i \in 1..Len(own) |-> copiedGuideline(own[i])]]
    IN over(self.guidelines)

\* BaseGlyph.copyData: [err, o]; the anchors of the source are appended,
\* the guideline loop runs, and the image is copied to a name that is not
\* bound
glyph_copyData(self, source) ==
    LET image(o) == IF source.image THEN [err |-> "NameError", o |-> o]
                    ELSE [err |-> NoErr, o |-> o]
        anchors(o) == [o EXCEPT !.parts = o.parts \o source.parts]
    IN image(copyGuidelines(anchors(self), source))

\* BaseFont.copyData: [err, o]; the layers of the source are copied, then
\* the guideline loop runs
font_copyData(self, source) ==
    LET layers(o) ==
            [o EXCEPT !.parts = o.parts \o SelectSeq(source.parts,
                                     LAMBDA n : \A i \in 1..Len(o.parts) : o.parts[i] # n)]
    IN [err |-> NoErr, o |-> copyGuidelines(layers(self), source)]

\* self.copyData(source) of a glyph or a font
copyData(self, source) ==
    IF self.kind = "glyph" THEN glyph_copyData(self, source) ELSE font_copyData(self, source)

\* BaseObject.copy: [err, o], o the copy
copy(source) == copyData(Holder(source.kind, <<>>, <<>>, FALSE), source)

\* a source glyph or font, and a destination of the same kind
InitCopy ==
    /\ \E kind \in {"glyph", "font"}, gs \in GuidelineLists, own \in GuidelineLists,
          image \in BOOLEAN, parts \in {<<>>, <<"top">>} :
          /\ kind = "font" => ~image
          /\ obj = [source |-> Holder(kind, gs, parts, image),
                    self |-> Holder(kind, own, <<>>, FALSE)]
    /\ objPrev = obj
    /\ points = <<>>
    /\ prev = <<>>
    /\ op = NoOp
    /\ err = NoErr
    /\ ret = <<>>
    /\ steps = 0

\* self.copyData(source)
CopyDataOp ==
    /\ steps = 0
    /\ LET done(r) ==
               DoneObj([obj EXCEPT !.self = r.o],
                       Op("copyData", 0, obj.self.kind, FALSE, <<>>, Zero, Zero), r.err, r.o)
       IN done(copyData(obj.self, obj.source))

\* source.copy(); the copy is returned
CopyOp ==
    /\ steps = 0
    /\ LET done(r) ==
               DoneObj(obj, Op("copy", 0, obj.source.kind, FALSE, <<>>, Zero, Zero), r.err, r.o)
       IN done(copy(obj.source))

NextCopy == CopyDataOp \/ CopyOp

SpecCopy == InitCopy /\ [][NextCopy]_vars

(* ------------- SpecOT: the contours of a TrueType glyph ----------------- *)

\* the most points of a TrueType glyph of SpecOT
MaxOTPts == 4

\* A glyf table entry is [endPtsOfContours, coordinates, flags]: the index
\* of the last point of each contour, and the coordinates and the on-curve
\* flag of each point.

\* the endPtsOfContours of a glyph of n points: increasing, the last n - 1
EndPtsLists(n) ==
    IF n = 0 THEN {<<>>}
    ELSE UNION {{s \in [1..k -> 0..(n - 1)] :
                    /\ s[k] = n - 1
                    /\ \A i \in 1..(k - 1) : s[i] < s[i + 1]} : k \in 1..n}

\* OTGlyph._contourStartAndEnd: [err, startPt, endPt]
contourStartAndEnd(glyph, index) ==
    IF ~PyInRange(glyph.endPtsOfContours, index)
    THEN [err |-> "IndexError", startPt |-> 0, endPt |-> 0]
    ELSE [err |-> NoErr,
          startPt |-> IF index > 0 THEN PyAt(glyph.endPtsOfContours, index - 1) ELSE 0,
          endPt |-> PyAt(glyph.endPtsOfContours, index)]

\* the loop of OTGlyph._getContour from point j on: the points wrapped,
\* contour those wrapped so far
RECURSIVE readPoints(_, _, _, _, _)
readPoints(glyph, startPt, endPt, j, contour) ==
    IF j > endPt THEN contour
    ELSE readPoints(glyph, startPt, endPt, j + 1,
             Append(contour,
                 [pos |-> glyph.coordinates[j + 1],
                  index |-> j,
                  segmentType |->
                      IF glyph.flags[j + 1] # 1 THEN "offcurve"
                      ELSE IF \/ j = startPt /\ glyph.flags[endPt + 1] = 1
                              \/ j # startPt /\ Last(contour).segmentType # "offcurve"
                      THEN "line"
                      ELSE "curve"]))

\* OTGlyph._getContour on a TrueType glyph: [err, contour]
getContour(glyph, index) ==
    LET read(r) ==
            IF r.err # NoErr THEN [err |-> r.err, contour |-> <<>>]
            ELSE [err |-> NoErr, contour |-> readPoints(glyph, r.startPt, r.endPt, r.startPt, <<>>)]
    IN read(contourStartAndEnd(glyph, index))

\* the loop of OTGlyph._setContour from point j of clist on
RECURSIVE writePoints(_, _, _, _)
writePoints(glyph, startPt, clist, j) ==
    IF j >= Len(clist) THEN glyph
    ELSE writePoints(
             [glyph EXCEPT
                 !.coordinates[j + startPt + 1] = clist[j + 1].pos,
                 !.flags[j + startPt + 1] =
                     IF clist[j + 1].segmentType # "offcurve" THEN 1 ELSE 0],
             startPt, clist, j + 1)

\* OTGlyph._setContour on a TrueType glyph: [err, glyph]
setContour(glyph, index, clist) ==
    LET write(r) == [err |-> NoErr, glyph |-> writePoints(glyph, r.startPt, clist, 0)]
        checked(old) ==
            IF old.err # NoErr THEN [err |-> old.err, glyph |-> glyph]
            ELSE IF Len(old.contour) # Len(clist)
            THEN [err |-> "NotImplementedError", glyph |-> glyph]
            ELSE write(contourStartAndEnd(glyph, index))
    IN checked(getContour(glyph, index))

\* the contours handed to _setContour: points unlike any point of a glyph
\* of InitOT
NewContours ==
    UNION {[1..n -> {[pos |-> <<7, 7>>, segmentType |-> "qcurve"]}] : n \in 1..MaxOTPts}

\* a TrueType glyph of at most MaxOTPts points; point j lies at (j, 0)
InitOT ==
    /\ \E n \in 0..MaxOTPts :
       \E ends \in EndPtsLists(n), flags \in [1..n -> {0, 1}] :
          obj = [endPtsOfContours |-> ends, coordinates |-> [j \in 1..n |-> <<j - 1, 0>>],
                 flags |-> flags]
    /\ objPrev = obj
    /\ points = <<>>
    /\ prev = <<>>
    /\ op = NoOp
    /\ err = NoErr
    /\ ret = <<>>
    /\ steps = 0

\* glyph._getContour(index); the wrapped points are returned
GetContourOp ==
    /\ steps = 0
    /\ \E index \in 0..Len(obj.endPtsOfContours) :
          LET done(r) ==
                  DoneObj(obj, Op("getContour", index, "line", FALSE, <<>>, Zero, Zero),
                          r.err, r.contour)
          IN done(getContour(obj, index))

\* glyph._setContour(index, contour)
SetContourOp ==
    /\ steps = 0
    /\ \E index \in 0..Len(obj.endPtsOfContours), clist \in NewContours :
          LET done(r) ==
                  DoneObj(r.glyph, Op("setContour", index, "line", FALSE, clist, Zero, Zero),
                          r.err, <<>>)
          IN done(setContour(obj, index, clist))

NextOT == GetContourOp \/ SetContourOp

SpecOT == InitOT /\ [][NextOT]_vars

(* ------------- Spec: one operation on a well-formed contour ------------ *)

\* positions of the points of an initial contour, and of the points handed
\* to an operation
Pos == {<<0, 0>>, <<1, 0>>}

\* handle vectors handed to an operation
Vecs == {<<0, 0>>, <<1, 0>>}

KindPoints(kind) ==
    IF kind = "curve" THEN <<"offcurve", "offcurve", "curve">> ELSE <<kind>>

KindLists(n) == [1..n -> {"line", "curve"}]

Expand(kinds) == Flatten([i \in 1..Len(kinds) |-> KindPoints(kinds[i])])

\* the line and curve segments of a contour of at most n points
Kinds(n) == {kinds \in UNION {KindLists(m) : m \in 0..n} : Len(Expand(kinds)) <= n}

\* the point types of a closed contour of line and curve segments, of at
\* most MaxPts points, its point list starting anywhere
ClosedShapes ==
    UNION {{Rotate(Expand(kinds), k) : k \in 0..(Len(Expand(kinds)) - 1)} :
           kinds \in Kinds(MaxPts) \ {<<>>}}

\* the point types of an open contour: a move, then line and curve segments
OpenShapes == {<<"move">> \o Expand(kinds) : kinds \in Kinds(MaxPts - 1)}

Init ==
    /\ \E ts \in ClosedShapes \cup OpenShapes :
       \E ps \in [1..Len(ts) -> Pos] :
       \E sm \in SUBSET {i \in 1..Len(ts) : ts[i] = "curve"} :
          points = [i \in 1..Len(ts) |-> Point(ps[i], ts[i], i \in sm)]
    /\ prev = points
    /\ op = NoOp
    /\ err = NoErr
    /\ ret = <<>>
    /\ steps = 0
    /\ obj = <<>>
    /\ objPrev = <<>>

\* the segments handed to appendSegment and insertSegment
NewSegments ==
    {[type |-> "line", pts |-> <<p>>, smooth |-> FALSE] : p \in Pos}
    \cup {[type |-> "curve", pts |-> <<q, p, p>>, smooth |-> b] :
            p \in Pos, q \in Pos, b \in BOOLEAN}

\* what the bPoint of point reads: anchor, and bcpIn and bcpOut as [err, v]
readBPoint(c, point) ==
    [anchor |-> get_anchor(c, point), bcpIn |-> get_bcpIn(c, point),
     bcpOut |-> get_bcpOut(c, point)]

BPointIndexes == 0..(Len(get_bPoints(Ctx(points))) - 1)

\* the segment indexes handed to an operation: every valid one, and one past
SegmentIndexes == 0..Cardinality({i \in 1..Len(points) : points[i].type # "offcurve"})

AppendSegmentOp ==
    /\ steps = 0
    /\ \E s \in NewSegments :
          Done(appendSegment(Ctx(points), s.type, s.pts, s.smooth),
               Op("appendSegment", 0, s.type, s.smooth, s.pts, Zero, Zero), <<>>)

InsertSegmentOp ==
    /\ steps = 0
    /\ \E index \in SegmentIndexes, s \in NewSegments :
          Done(insertSegment(Ctx(points), index, s.type, s.pts, s.smooth),
               Op("insertSegment", index, s.type, s.smooth, s.pts, Zero, Zero), <<>>)

RemoveSegmentOp ==
    /\ steps = 0
    /\ \E index \in SegmentIndexes :
          Done(removeSegment(Ctx(points), index),
               Op("removeSegment", index, "line", FALSE, <<>>, Zero, Zero), <<>>)

\* setStartSegment; returns the segments derived afterwards
SetStartSegmentOp ==
    /\ steps = 0
    /\ \E index \in SegmentIndexes :
          LET done(c) ==
                  Done(c, Op("setStartSegment", index, "line", FALSE, <<>>, Zero, Zero),
                       get_segments(Ctx(PointsOf(c))))
          IN done(setStartSegment(Ctx(points), index))

InsertBPointOp ==
    /\ steps = 0
    /\ \E index \in SegmentIndexes, type \in {"corner", "curve"}, anchor \in Pos,
          bcpIn \in Vecs, bcpOut \in Vecs :
          Done(insertBPoint(Ctx(points), index, type, anchor, bcpIn, bcpOut),
               Op("insertBPoint", index, type, FALSE, <<anchor>>, bcpIn, bcpOut), <<>>)

AppendBPointOp ==
    /\ steps = 0
    /\ \E type \in {"corner", "curve"}, anchor \in Pos, bcpIn \in Vecs, bcpOut \in Vecs :
          Done(appendBPoint(Ctx(points), type, anchor, bcpIn, bcpOut),
               Op("appendBPoint", 0, type, FALSE, <<anchor>>, bcpIn, bcpOut), <<>>)

\* removeBPoint with every index up to the number of points
RemoveBPointOp ==
    /\ steps = 0
    /\ \E index \in 0..Len(points) :
          Done(removeBPoint(Ctx(points), index),
               Op("removeBPoint", index, "line", FALSE, <<>>, Zero, Zero), <<>>)

SetBcpInOp ==
    /\ steps = 0
    /\ \E index \in BPointIndexes, v \in Vecs :
          LET point == get_bPoints(Ctx(points))[index + 1]
              done(c) == Done(c, Op("bcpIn", index, "line", FALSE, <<>>, v, Zero),
                              readBPoint(c, point))
          IN done(set_bcpIn(Ctx(points), point, v))

SetBcpOutOp ==
    /\ steps = 0
    /\ \E index \in BPointIndexes, v \in Vecs :
          LET point == get_bPoints(Ctx(points))[index + 1]
              done(c) == Done(c, Op("bcpOut", index, "line", FALSE, <<>>, v, Zero),
                              readBPoint(c, point))
          IN done(set_bcpOut(Ctx(points), point, v))

\* bPoint.bcpIn = (0, 0) and then bPoint.bcpOut = (0, 0); returns the
\* bPoint's point as it is afterwards
ZeroHandlesOp ==
    /\ steps = 0
    /\ \E index \in BPointIndexes :
          LET point == get_bPoints(Ctx(points))[index + 1]
              done(c) == Done(c, Op("zeroHandles", index, "line", FALSE, <<>>, Zero, Zero),
                              c.at[point])
          IN done(set_bcpOut(set_bcpIn(Ctx(points), point, Zero), point, Zero))

\* bPoint.anchor = v; returns what the bPoint reads afterwards
SetAnchorOp ==
    /\ steps = 0
    /\ \E index \in BPointIndexes, v \in Pos :
          LET point == get_bPoints(Ctx(points))[index + 1]
              done(c) == Done(c, Op("anchor", index, "line", FALSE, <<>>, v, Zero),
                              readBPoint(c, point))
          IN done(set_anchor(Ctx(points), point, v))

\* bPoint.type = value; returns what bPoint.type reads afterwards
SetTypeOp ==
    /\ steps = 0
    /\ \E index \in BPointIndexes, value \in {"corner", "curve"} :
          LET point == get_bPoints(Ctx(points))[index + 1]
              done(c) == Done(c, Op("type", index, value, FALSE, <<>>, Zero, Zero),
                              get_type(c, point))
          IN done(set_type(Ctx(points), point, value))

\* every bPoint's anchor, bcpIn and bcpOut assigned the values in reads
RECURSIVE writeBack(_, _, _)
writeBack(c, bPoints, reads) ==
    IF Len(bPoints) = 0 THEN c
    ELSE LET b == Head(bPoints)
             r == Head(reads)
         IN writeBack(set_bcpOut(set_bcpIn(set_anchor(c, b, r.anchor),
                                           b, r.bcpIn.v),
                                 b, r.bcpOut.v),
                      Tail(bPoints), Tail(reads))

\* every bPoint read, then every bPoint written back what was read
roundTrip(c) ==
    LET write(bPoints, reads, failed) ==
            IF failed # {}
            THEN Fail(c, LET k == CHOOSE i \in failed : \A j \in failed : i <= j
                         IN IF reads[k].bcpIn.err # NoErr THEN reads[k].bcpIn.err
                            ELSE reads[k].bcpOut.err)
            ELSE writeBack(c, bPoints, reads)
        check(bPoints, reads) ==
            write(bPoints, reads,
                  {k \in 1..Len(bPoints) :
                      reads[k].bcpIn.err # NoErr \/ reads[k].bcpOut.err # NoErr})
        read(bPoints) ==
            check(bPoints, [k \in 1..Len(bPoints) |-> readBPoint(c, bPoints[k])])
    IN  read(get_bPoints(c))

WriteBackOp ==
    /\ steps = 0
    /\ Done(roundTrip(Ctx(points)),
            Op("writeBack", 0, "line", FALSE, <<>>, Zero, Zero), <<>>)

\* Spec: the contour's segment operations
Next ==
    \/ AppendSegmentOp
    \/ InsertSegmentOp
    \/ RemoveSegmentOp
    \/ SetStartSegmentOp
    \/ InsertBPointOp
    \/ RemoveBPointOp
    \/ AppendBPointOp

Spec == Init /\ [][Next]_vars

\* SpecBPoint: the handle assignments of a bPoint
NextBPoint ==
    \/ SetBcpInOp
    \/ SetBcpOutOp
    \/ ZeroHandlesOp
    \/ WriteBackOp
    \/ SetAnchorOp
    \/ SetTypeOp

SpecBPoint == Init /\ [][NextBPoint]_vars

(* ------------------------- claims on segments ------------------------- *)

AllIds == [i \in 1..Len(points) |-> i]

IsOn(i) == points[i].type # "offcurve"

OnCurveIds == SelectSeq(AllIds, IsOn)

FirstIsMove == points[1].type = "move"

\* the point list without the off-curve points after its last on-curve point
WithoutTrailingOff ==
    LET ons == {i \in 1..Len(points) : IsOn(i)}
    IN SubSeq(AllIds, 1, CHOOSE i \in ons : \A j \in ons : j <= i)

EndsWrapped == ~IsOn(1) /\ ~IsOn(Len(points))

\* contour.segments was read on a non-empty contour
ReadSegments == op.name = "segments" /\ points # <<>>

\* C1 as stated: for a non-empty contour the segments' points, concatenated
\* in segment order, are the point list in its original order.
C1_Original ==
    ReadSegments => err = NoErr /\ Flatten(ret) = AllIds

\* C1 amended: the derivation fails exactly on a point list that does not
\* start with a move and both starts and ends with an off-curve point;
\* otherwise the concatenation holds no point twice and is, for an open
\* contour (first point a move), the point list in order without its trailing
\* off-curve points, and for a closed contour a rotation of the point list.
C1_Partition ==
    ReadSegments =>
        IF EndsWrapped
        THEN err \in {"AssertionError", "IndexError"}
        ELSE /\ err = NoErr
             /\ IF FirstIsMove
                THEN Flatten(ret) = WithoutTrailingOff
                ELSE IsRotationOf(Flatten(ret), AllIds)

\* the segments of a closed contour with trailing off-curves were read and
\* are a proper rotation of the point list
C1_Witness ==
    /\ ReadSegments
    /\ Len(points) >= 3
    /\ points[1].type = "line"
    /\ Last(points).type = "offcurve"
    /\ err = NoErr
    /\ Flatten(ret) # AllIds
    /\ IsRotationOf(Flatten(ret), AllIds)

\* C2 as stated: for any contour the number of segments is the number of
\* points that are not off-curve, and inserting one on-curve point with
\* insertPoint raises the number of segments by one.
C2_SegmentCount ==
    /\ op.name = "segments" => err = NoErr /\ Len(ret) = Len(OnCurveIds)
    /\ (op.name = "insertPoint" /\ op.type # "offcurve")
          => lenSegments(Ctx(points)) = lenSegments(Ctx(prev)) + 1

\* C3 as stated: in an open contour segment k ends at the k-th on-curve
\* point; in a closed contour with n on-curve points segment k ends at
\* on-curve point (k+1) mod n.
C3_Order ==
    (ReadSegments /\ Len(OnCurveIds) > 0) =>
        /\ err = NoErr
        /\ Len(ret) = Len(OnCurveIds)
        /\ \A k \in 0..(Len(OnCurveIds) - 1) :
              onCurve(ret[k + 1]) =
                  IF FirstIsMove THEN OnCurveIds[k + 1]
                  ELSE OnCurveIds[((k + 1) % Len(OnCurveIds)) + 1]

(* -------------------- claims on segment operations -------------------- *)

PrevCtx == Ctx(prev)

PrevSegments == get_segments(PrevCtx)

\* a segment of pts as the list of its points' positions, types and smooth
\* flags, a move read as a line
SegmentPoints(pts, segment) ==
    [k \in 1..Len(segment) |->
        [pts[segment[k]] EXCEPT !.type = IF @ = "move" THEN "line" ELSE @]]

SegmentsPoints(pts, segments) ==
    [k \in 1..Len(segments) |-> SegmentPoints(pts, segments[k])]

\* setStartSegment(i) was called with 0 < i < segmentCount
StartSegmentMoved ==
    /\ op.name = "setStartSegment"
    /\ PrevSegments.err = NoErr
    /\ Len(PrevSegments.segs) >= 2
    /\ 0 < op.index /\ op.index < Len(PrevSegments.segs)

\* C4 as stated: after setStartSegment(i) with 0 < i < segmentCount the
\* segment that was at index i is segment 0 of the re-derived segments, and
\* the other segments follow in the same cyclic order.
C4_StartSegment ==
    StartSegmentMoved =>
        /\ err = NoErr
        /\ ret.err = NoErr
        /\ SegmentsPoints(points, ret.segs) =
               Rotate(SegmentsPoints(prev, PrevSegments.segs), op.index)

\* the contour before the call was a closed contour of line segments
PrevAllLines == prev # <<>> /\ \A i \in 1..Len(prev) : prev[i].type = "line"

CyclicAt(s, i) == s[((i - 1) % Len(s)) + 1]

\* C5 as stated: insertBPoint on a closed contour of line segments completes
\* without error and adds exactly one on-curve point, at anchor and of type
\* curve, with an off-curve point at anchor+bcpIn just before it and one at
\* anchor+bcpOut just after it.
C5_InsertBPoint ==
    (op.name = "insertBPoint" /\ PrevAllLines /\ op.index < Len(prev)) =>
        /\ err = NoErr
        /\ Cardinality({i \in 1..Len(points) : points[i].type # "offcurve"})
               = Len(prev) + 1
        /\ \E i \in 1..Len(points) :
              /\ points[i].type = "curve" /\ points[i].pos = op.pts[1]
              /\ CyclicAt(points, i - 1).type = "offcurve"
              /\ CyclicAt(points, i - 1).pos = Plus(op.pts[1], op.v)
              /\ CyclicAt(points, i + 1).type = "offcurve"
              /\ CyclicAt(points, i + 1).pos = Plus(op.pts[1], op.w)

Moves(pts) == {i \in 1..Len(pts) : pts[i].type = "move"}

\* C10 as stated: after appendSegment, insertSegment, removeSegment or
\* setStartSegment completes without error on a well-formed contour, the
\* contour holds at most one move point, and that point is the first point.
C10_OneMoveFirst ==
    (/\ op.name \in {"appendSegment", "insertSegment", "removeSegment", "setStartSegment"}
     /\ err = NoErr)
        => Moves(points) \subseteq {1}

(* ----------------------- claims on bPoint handles ---------------------- *)

\* the bPoint an operation was applied to, in the contour before it
PrevBPoint == get_bPoints(PrevCtx)[op.index + 1]

PrevRead == readBPoint(PrevCtx, PrevBPoint)

PrevOwn == get_base_segment(PrevCtx, PrevBPoint)

PrevNext == get_base_nextSegment(PrevCtx, PrevBPoint)

\* C7 as stated: for a bPoint whose own segment is a curve, bcpIn = (0,0)
\* and then bcpOut = (0,0) raise no error and leave the segment of type line
\* and not smooth.
C7_ZeroHandles ==
    (/\ op.name = "zeroHandles"
     /\ PrevOwn.err = NoErr
     /\ segmentType(PrevCtx, PrevOwn.seg) = "curve")
        => err = NoErr /\ ret.type = "line" /\ ret.smooth = FALSE

\* C8 as stated: after bcpOut = v with v non-zero and the next segment not
\* a move, bcpOut reads v, the next segment is a curve, and anchor and bcpIn
\* read as before; after bcpIn = v with v non-zero and the own segment not a
\* move, bcpIn reads v and anchor and bcpOut read as before.
C8_HandleRoundTrip ==
    /\ (/\ op.name = "bcpOut" /\ op.v # Zero
        /\ PrevNext.err = NoErr
        /\ segmentType(PrevCtx, PrevNext.seg) # "move")
           => /\ err = NoErr
              /\ ret.bcpOut = [err |-> NoErr, v |-> op.v]
              /\ ret.anchor = PrevRead.anchor
              /\ ret.bcpIn = PrevRead.bcpIn
    /\ (/\ op.name = "bcpIn" /\ op.v # Zero
        /\ PrevOwn.err = NoErr
        /\ segmentType(PrevCtx, PrevOwn.seg) # "move")
           => /\ err = NoErr
              /\ ret.bcpIn = [err |-> NoErr, v |-> op.v]
              /\ ret.anchor = PrevRead.anchor
              /\ ret.bcpOut = PrevRead.bcpOut

\* bcpIn was assigned on the move point of an open contour
BcpInOnMove ==
    /\ op.name = "bcpIn"
    /\ prev[1].type = "move"
    /\ op.index = 0

\* bcpOut was assigned on a bPoint whose next segment is the move segment
BcpOutBeforeMove ==
    /\ op.name = "bcpOut"
    /\ PrevNext.err = NoErr
    /\ segmentType(PrevCtx, PrevNext.seg) = "move"

\* C9: a non-zero bcpIn on the move point of an open contour, and a non-zero
\* bcpOut on a bPoint whose next segment is the move segment, raise
\* FontPartsError and leave the point list as it was; (0,0) raises nothing.
C9_MoveHandles ==
    (BcpInOnMove \/ BcpOutBeforeMove) =>
        IF op.v # Zero
        THEN err = "FontPartsError" /\ points = prev
        ELSE err = NoErr

\* a non-zero bcpOut was refused on the last point of an open contour of
\* several segments
C9_Witness ==
    /\ BcpOutBeforeMove
    /\ op.v # Zero
    /\ op.index > 0
    /\ err = "FontPartsError"
    /\ points = prev

\* the contour before the call was closed, of line segments and smooth
\* curve segments only
PrevClosedSmooth ==
    /\ prev # <<>>
    /\ \A i \in 1..Len(prev) :
          \/ prev[i].type \in {"line", "offcurve"}
          \/ prev[i].type = "curve" /\ prev[i].smooth

\* C6 as stated: on a closed contour of line and smooth curve segments,
\* assigning every bPoint's anchor, bcpIn and bcpOut the values just read
\* raises no error and leaves the point list unchanged.
C6_Original ==
    (op.name = "writeBack" /\ PrevClosedSmooth) => err = NoErr /\ points = prev

\* a bPoint of the contour before the call that touches a curve segment
\* and reads (0,0) for both handles
PrevCollapsed(point) ==
    LET r == readBPoint(PrevCtx, point)
        own == get_base_segment(PrevCtx, point).seg
        next == get_base_nextSegment(PrevCtx, point).seg
    IN  /\ r.bcpIn.v = Zero /\ r.bcpOut.v = Zero
        /\ Len(offCurve(own)) > 0 \/ Len(offCurve(next)) > 0

PrevNoneCollapsed ==
    \A k \in 1..Len(get_bPoints(PrevCtx)) : ~PrevCollapsed(get_bPoints(PrevCtx)[k])

\* C6 amended: on a closed contour of line and smooth curve segments in
\* which no bPoint that touches a curve segment reads (0,0) for both of its
\* handles, the write-back leaves the point list unchanged; it raises nothing
\* when the contour's segments derive, and where they do not (C1) the first
\* read raises that error.
C6_RoundTrip ==
    (/\ op.name = "writeBack"
     /\ PrevClosedSmooth
     /\ PrevSegments.err # NoErr \/ PrevNoneCollapsed)
        => points = prev /\ err = PrevSegments.err

\* a contour with a curve and a line segment, holding a bPoint with a zero
\* bcpIn and a non-zero bcpOut, was written back unchanged
C6_Witness ==
    /\ op.name = "writeBack"
    /\ PrevClosedSmooth
    /\ PrevSegments.err = NoErr
    /\ PrevNoneCollapsed
    /\ \E i \in 1..Len(prev) : prev[i].type = "line"
    /\ \E k \in 1..Len(get_bPoints(PrevCtx)) :
          LET r == readBPoint(PrevCtx, get_bPoints(PrevCtx)[k])
          IN r.bcpIn.v = Zero /\ r.bcpOut.v # Zero
    /\ points = prev
    /\ err = NoErr

(* ------------------ claims on the segments' points ------------------- *)

\* the off-curve count of every segment in segs matches its type
CountsMatch(pts, segs) ==
    \A k \in 1..Len(segs) :
        LET type == pts[Last(segs[k])].type
            n == Len(segs[k]) - 1
        IN  /\ type \in {"move", "line"} => n = 0
            /\ type = "curve" => n = 2
            /\ type = "qcurve" => n = 1

NowSegments == get_segments(Ctx(points))

PrevCountsMatch == PrevSegments.err = NoErr /\ CountsMatch(prev, PrevSegments.segs)

SegmentEdits == {"insertSegment", "appendSegment", "removeSegment", "removeBPoint",
                 "setStartSegment"}

\* C11: from a contour whose segments have the off-curve counts of their
\* types, an insertSegment, appendSegment, removeSegment, removeBPoint or
\* setStartSegment call that completes leaves a contour whose segments
\* derive and have the off-curve counts of their types.
C11_OffCurveCounts ==
    (op.name \in SegmentEdits /\ err = NoErr /\ PrevCountsMatch /\ Len(points) > 0)
        => NowSegments.err = NoErr /\ CountsMatch(points, NowSegments.segs)

\* the points a segment handed to insertSegment or appendSegment stands for
NewRun ==
    [k \in 1..Len(op.pts) |->
        IF k < Len(op.pts) THEN Point(op.pts[k], "offcurve", FALSE)
        ELSE Point(op.pts[k], op.type, op.smooth)]

\* C12: insertSegment(i, type, points, smooth) completes and puts the
\* off-curve points, in the given order, and then the on-curve point with
\* the given type and smooth flag, as one run at point index i; the points
\* before and after the run are the old points, unchanged and in order.
C12_InsertSegmentFrame ==
    op.name = "insertSegment" =>
        /\ err = NoErr
        /\ points = SubSeq(prev, 1, op.index) \o NewRun
                        \o SubSeq(prev, op.index + 1, Len(prev))

\* a curve segment with two different off-curve points was inserted between
\* two points of the contour
C12_Witness ==
    /\ op.name = "insertSegment"
    /\ op.type = "curve"
    /\ op.pts[1] # op.pts[2]
    /\ 0 < op.index /\ op.index < Len(prev)
    /\ Len(points) = Len(prev) + 3
    /\ points[op.index + 1] = Point(op.pts[1], "offcurve", FALSE)
    /\ points[op.index + 3] = Point(op.pts[3], "curve", op.smooth)

\* C13: appendSegment(type, points, smooth) completes and the new points
\* are the last entries of the point list, after every point the contour
\* had.
C13_AppendSegment ==
    op.name = "appendSegment" => err = NoErr /\ points = prev \o NewRun

\* s without the entries at the positions in ids
Without(s, ids) ==
    LET keep == {i \in 1..Len(s) : \A k \in 1..Len(ids) : ids[k] # i}
        F[i \in 0..Len(s)] ==
            IF i = 0 THEN <<>>
            ELSE IF i \in keep THEN Append(F[i - 1], s[i]) ELSE F[i - 1]
    IN F[Len(s)]

RemovedInRange ==
    /\ op.name = "removeSegment"
    /\ PrevSegments.err = NoErr
    /\ op.index < Len(PrevSegments.segs)

\* C14: removeSegment(i) with a valid index completes, the point list is
\* the old one without the points of segment i, and the contour has one
\* segment less.
C14_RemoveSegmentFrame ==
    RemovedInRange =>
        /\ err = NoErr
        /\ points = Without(prev, PrevSegments.segs[op.index + 1])
        /\ lenSegments(Ctx(points)) = Len(PrevSegments.segs) - 1

\* setStartSegment(i), 0 < i < segmentCount, on a contour whose last segment
\* is a curve ending where the first segment ends
DupCase ==
    /\ op.name = "setStartSegment"
    /\ PrevSegments.err = NoErr
    /\ 0 < op.index /\ op.index < Len(PrevSegments.segs)
    /\ segmentType(PrevCtx, Last(PrevSegments.segs)) \in {"curve", "qcurve"}
    /\ posOf(PrevCtx, onCurve(PrevSegments.segs[1]))
           = posOf(PrevCtx, onCurve(Last(PrevSegments.segs)))

PrevWithoutFirst == Without(prev, PrevSegments.segs[1])

StartOutOfRange ==
    /\ op.name = "setStartSegment"
    /\ PrevSegments.err = NoErr
    /\ op.index >= Len(PrevSegments.segs)

\* C16 as claimed: setStartSegment(i) with i >= segmentCount fails with a
\* FontPartsError and leaves the point list unchanged.
C16_Original == StartOutOfRange => err = "FontPartsError" /\ points = prev

\* C16 amended: setStartSegment(i) with i >= segmentCount leaves the point
\* list unchanged; it fails with a FontPartsError on a contour of two or
\* more segments and returns without error on a contour of one segment.
C16_OutOfRange ==
    StartOutOfRange =>
        /\ points = prev
        /\ err = IF Len(PrevSegments.segs) >= 2 THEN "FontPartsError" ELSE NoErr

\* the call was refused on a contour of two or more segments
C16_Witness ==
    /\ StartOutOfRange
    /\ Len(PrevSegments.segs) >= 2
    /\ err = "FontPartsError"
    /\ points = prev

(* ----------------------- claims on compatibility --------------------- *)

OtherCtx == Ctx(op.pts)

\* C17: isCompatible sets the reporter's fatal flag whenever the segment
\* counts of the two contours differ or one is open and the other closed.
C17_FatalDifferences ==
    (/\ op.name = "isCompatible"
     /\ PrevSegments.err = NoErr
     /\ get_segments(OtherCtx).err = NoErr
     /\ \/ Len(PrevSegments.segs) # Len(get_segments(OtherCtx).segs)
        \/ get_open(PrevCtx) # get_open(OtherCtx))
        => err = NoErr /\ ret.fatal

(* ------------------------- claims on bPoints -------------------------- *)

\* the positions of the first i points of pts that are of type move, line or
\* curve, in order
AnchorsUpTo(pts) ==
    LET F[i \in 0..Len(pts)] ==
            IF i = 0 THEN <<>>
            ELSE IF pts[i].type \in {"move", "line", "curve"}
            THEN Append(F[i - 1], pts[i].pos)
            ELSE F[i - 1]
    IN F

\* C18: contour.bPoints holds one bPoint for each point of type move, line
\* or curve, in point-list order, and none for the other points; the anchor
\* of the k-th bPoint is the position of the k-th such point.
C18_BPoints ==
    op.name = "bPoints" =>
        /\ err = NoErr
        /\ ret = AnchorsUpTo(prev)[Len(prev)]
        /\ Len(ret) = Cardinality({i \in 1..Len(prev) :
                                      prev[i].type \in {"move", "line", "curve"}})

\* a point list with an off-curve, a qcurve and a curve point was read
C18_Witness ==
    /\ op.name = "bPoints"
    /\ Len(prev) = 3
    /\ prev[1].type = "offcurve" /\ prev[2].type = "qcurve" /\ prev[3].type = "curve"
    /\ ret = <<prev[3].pos>>

\* the off-curve points that are the handles of the bPoint before the call:
\* the last one of its segment and the first one of its next segment
PrevHandles ==
    (IF Len(offCurve(PrevOwn.seg)) > 0 THEN {Last(offCurve(PrevOwn.seg))} ELSE {})
        \cup (IF Len(offCurve(PrevNext.seg)) > 0 THEN {offCurve(PrevNext.seg)[1]} ELSE {})

\* C19: bPoint.anchor = v completes; afterwards anchor reads v, bcpIn and
\* bcpOut read as before, and every point but the bPoint's point and its two
\* handles is where and what it was.
C19_Anchor ==
    (op.name = "anchor" /\ PrevSegments.err = NoErr) =>
        /\ err = NoErr
        /\ ret.anchor = op.v
        /\ ret.bcpIn = PrevRead.bcpIn
        /\ ret.bcpOut = PrevRead.bcpOut
        /\ Len(points) = Len(prev)
        /\ \A i \in 1..Len(prev) :
              /\ points[i].type = prev[i].type
              /\ points[i].smooth = prev[i].smooth
              /\ (i # PrevBPoint /\ i \notin PrevHandles) => points[i] = prev[i]

\* C20: after bPoint.type = t on a bPoint whose point is a line or a curve
\* point, bPoint.type reads t; from curve to corner only the smooth flag of
\* the bPoint's point changes.
C20_Type ==
    (/\ op.name = "type"
     /\ PrevSegments.err = NoErr
     /\ prev[PrevBPoint].type \in {"line", "curve"})
        => /\ err = NoErr
           /\ ret = [err |-> NoErr, v |-> op.type]
           /\ (op.type = "corner" /\ get_type(PrevCtx, PrevBPoint).v = "curve")
                 => points = [prev EXCEPT ![PrevBPoint].smooth = FALSE]

\* the anchors of the contour's bPoints after the call
NowAnchors == [k \in 1..Len(get_bPoints(Ctx(points))) |-> points[get_bPoints(Ctx(points))[k]].pos]

\* C21: appendBPoint on a closed contour of line and curve segments completes
\* and adds one bPoint, the last one of contour.bPoints, at the given anchor.
C21_AppendBPoint ==
    (op.name = "appendBPoint" /\ Len(prev) > 0 /\ ~get_open(PrevCtx))
        => /\ err = NoErr
           /\ Len(NowAnchors) = Len(get_bPoints(PrevCtx)) + 1
           /\ Last(NowAnchors) = op.pts[1]

\* C22: contour.clockwise = v completes; the point list is reversed when the
\* direction read before differs from v and is unchanged when it is equal;
\* afterwards contour.clockwise reads v.
C22_SetClockwise ==
    op.name = "clockwise" =>
        /\ err = NoErr
        /\ ret = op.smooth
        /\ (get_clockwise(PrevCtx) = op.smooth => points = prev)
        /\ (get_clockwise(PrevCtx) # op.smooth
               => {points[i] : i \in 1..Len(points)} = {prev[i] : i \in 1..Len(prev)}
                  /\ Len(points) = Len(prev))

\* the transformBy calls of SpecAnchor
TransformCalls == {"anchor.transformBy", "contour.transformBy"}

\* the coordinates of the transformed object before and after the call
CoordsBefore ==
    IF op.name = "anchor.transformBy" THEN <<<<objPrev.x, objPrev.y>>>>
    ELSE [i \in 1..Len(prev) |-> prev[i].pos]

CoordsAfter ==
    IF op.name = "anchor.transformBy" THEN <<<<obj.x, obj.y>>>>
    ELSE [i \in 1..Len(points) |-> points[i].pos]

\* M(p) + (o - M(o)) for the matrix and the origin o of the call
AboutOrigin(p, o) == Plus(transformPoint(op.pts, p), Minus(o, transformPoint(op.pts, o)))

\* C23 as stated: with every origin o, None read as (0,0), each coordinate p
\* becomes M(p) + (o - M(o)).
C23_Original ==
    op.name \in TransformCalls =>
        /\ err = NoErr
        /\ Len(CoordsAfter) = Len(CoordsBefore)
        /\ \A i \in 1..Len(CoordsBefore) :
              CoordsAfter[i] = AboutOrigin(CoordsBefore[i], IF op.v = None THEN Zero ELSE op.v)

\* C23: transformBy maps each coordinate p to M(p) + (o - M(o)) when the
\* origin o is a coordinate other than (0,0), so that a coordinate at o stays
\* at o, and to M(p) when the origin is None or (0,0).
C23_TransformBy ==
    op.name \in TransformCalls =>
        /\ err = NoErr
        /\ Len(CoordsAfter) = Len(CoordsBefore)
        /\ \A i \in 1..Len(CoordsBefore) :
              /\ op.v \in {None, Zero} => CoordsAfter[i] = transformPoint(op.pts, CoordsBefore[i])
              /\ op.v \notin {None, Zero} =>
                    /\ CoordsAfter[i] = AboutOrigin(CoordsBefore[i], op.v)
                    /\ CoordsBefore[i] = op.v => CoordsAfter[i] = op.v

\* an anchor lying on a non-zero origin was transformed by a matrix that, on
\* its own, moves it
C23_Witness ==
    /\ op.name = "anchor.transformBy"
    /\ op.v \notin {None, Zero}
    /\ <<objPrev.x, objPrev.y>> = op.v
    /\ transformPoint(op.pts, op.v) # op.v
    /\ <<obj.x, obj.y>> = op.v

\* C24: assigning a string to anchor.name makes anchor.name read that
\* string; assigning a value that is neither a string nor None raises
\* FontPartsError and leaves the stored name as it was.
C24_Name ==
    op.name = "anchor.name" =>
        /\ op.pts[1].kind = "str" =>
              err = NoErr /\ ret = [err |-> NoErr, v |-> op.pts[1]]
        /\ op.pts[1].kind \notin {"str", "NoneType"} =>
              err = "FontPartsError" /\ obj.name = objPrev.name
                  /\ ret = [err |-> NoErr, v |-> objPrev.name]

\* the integer 123 was refused as the name of an anchor named testAnchor1
C24_Witness ==
    /\ op.name = "anchor.name"
    /\ op.pts[1] = Value("int", "123")
    /\ objPrev.name = Value("str", "testAnchor1")
    /\ err = "FontPartsError"
    /\ obj.name = Value("str", "testAnchor1")

\* the key-value pairs that the reads r of a dict-like object show
View(r) == {<<k, r.get[k].v>> : k \in {k1 \in ValidKeys : r.has[k1].v}}

\* the reads r agree with each other: len is the number of keys that are in
\* the object, and each of them has a value
ConsistentReads(r) ==
    /\ r.len = [err |-> NoErr, v |-> Cardinality({k \in ValidKeys : r.has[k].v})]
    /\ \A k \in ValidKeys : r.has[k].err = NoErr /\ (r.has[k].v => r.get[k].err = NoErr)

\* the pairs of view with the pairs of the map other assigned on top
Assigned(view, other) ==
    {p \in view : p[1] \notin DOMAIN other} \cup {<<k, other[k]>> : k \in DOMAIN other}

\* the call of the last step is one the claim speaks of: valid keys and
\* values, and a deletion of a key that is present
DictCallValid ==
    \/ op.name = "setitem" /\ op.type \in ValidKeys /\ op.index \in ValidValues
    \/ op.name = "delitem" /\ op.type \in ValidKeys /\ readDict(objPrev).has[op.type].v
    \/ op.name = "update" /\ \A k \in DOMAIN op.pts : k \in ValidKeys /\ op.pts[k] \in ValidValues
    \/ op.name = "clear"

\* the pairs the object must show after the call of the last step
DictExpected(view) ==
    IF op.name = "setitem" THEN Assigned(view, [k \in {op.type} |-> op.index])
    ELSE IF op.name = "delitem" THEN {p \in view : p[1] # op.type}
    ELSE IF op.name = "update" THEN Assigned(view, op.pts)
    ELSE {}

\* C25: on an object with validators (kerning), each update, item
\* assignment, item deletion and clear completes and leaves the object
\* reading as the key-value map it read as before with the call applied:
\* len is the number of keys present, key in d holds for the keys assigned
\* and not deleted, d[key] is the value last assigned, and len is 0 after
\* clear.
C25_KeyValueMap ==
    (obj.validated /\ DictCallValid) =>
        /\ err = NoErr
        /\ ConsistentReads(ret)
        /\ View(ret) = DictExpected(View(readDict(objPrev)))
        /\ op.name = "clear" => ret.len.v = 0

\* a kerning object holding two pairs was cleared as the third call made on
\* it
C25_Witness ==
    /\ obj.validated
    /\ steps = MaxOps
    /\ op.name = "clear"
    /\ readDict(objPrev).len.v = 2
    /\ ret.len.v = 0

\* C26: a copy, and a destination without guidelines after
\* copyData(source), has the guidelines of the source: as many, each with the
\* source guideline's x, y, angle, name and color.
C26_CopyGuidelines ==
    (\/ op.name = "copy"
     \/ op.name = "copyData" /\ objPrev.self.guidelines = <<>>)
        => ret.guidelines = objPrev.source.guidelines

\* C27: removeBPoint with an index that is not below the number of bPoints
\* fails with FontPartsError and leaves the point list as it was.
C27_RemoveBPointOutOfRange ==
    (op.name = "removeBPoint" /\ op.index >= Len(get_bPoints(PrevCtx)))
        => err = "FontPartsError" /\ points = prev

\* C28: deriving contour.segments succeeds on every point list.
C28_SegmentsDerive == op.name = "segments" => err = NoErr

\* the points with a move read as a line
MoveAsLine(pts) == [i \in 1..Len(pts) |-> [pts[i] EXCEPT !.type = IF @ = "move" THEN "line" ELSE @]]

\* setStartSegment(i), 0 < i < segmentCount, on a contour to which the
\* duplicate-point rule does not apply
PlainStart ==
    /\ op.name = "setStartSegment"
    /\ PrevSegments.err = NoErr
    /\ 0 < op.index /\ op.index < Len(PrevSegments.segs)
    /\ ~DupCase

ContourRange(k) ==
    (IF k = 0 THEN 0 ELSE objPrev.endPtsOfContours[k] + 1)..objPrev.endPtsOfContours[k + 1]

\* the call was made with the index of a contour of the glyph
OnContour(name) == op.name = name /\ op.index < Len(objPrev.endPtsOfContours)

\* C30: _getContour(k) reads exactly the points of contour k's range, and
\* _setContour(k) with a contour of as many points writes exactly those, so
\* that each point of the glyph belongs to one contour.
C30_ContourRanges ==
    /\ OnContour("getContour") =>
          err = NoErr /\ {ret[i].index : i \in 1..Len(ret)} = ContourRange(op.index)
    /\ (OnContour("setContour") /\ Len(op.pts) = Cardinality(ContourRange(op.index))) =>
          /\ err = NoErr
          /\ {j \in 0..(Len(obj.coordinates) - 1) :
                 obj.coordinates[j + 1] # objPrev.coordinates[j + 1]} = ContourRange(op.index)

====
